---- MODULE Spec2Model ----
(***************************************************************************)
(* Transport state machine of the music player (src/main.py) and the       *)
(* PlayerThread that supervises one ffplay process per playback segment.   *)
(*                                                                         *)
(* Time is counted in ticks of 1/UnitsPerSecond second, so that Python's   *)
(* int() truncation of float seconds and float() of the integer slider     *)
(* value are real conversions.  The primary (GUI) context runs one handler *)
(* at a time; a handler that calls PlayerThread.stop() blocks in           *)
(* join(timeout) and is therefore split at that point, where the           *)
(* background threads, the external processes and the wall clock may move. *)
(***************************************************************************)
EXTENDS Integers, Sequences, FiniteSets, TLC

\* ----------------------------------------------------------------- bounds
MaxClock == 3
MaxPos == 4
MaxThreads == 2
UnitsPerSecond == 2

\* ---------------------------------------------------------------- helpers
None == <<>>
Some(x) == <<x>>
Val(o) == o[1]

Max(a, b) == IF a >= b THEN a ELSE b
Min(a, b) == IF a <= b THEN a ELSE b

\* Python int() of a float number of seconds: truncation toward zero.
IntOf(x) == IF x >= 0 THEN x \div UnitsPerSecond ELSE -((-x) \div UnitsPerSecond)

\* Python float() of an integer number of seconds (the slider's value).
FloatOf(v) == v * UnitsPerSecond

\* format_time: the HH:MM:SS triple shown in a label.
format_time(seconds) ==
    LET s == Max(0, IntOf(seconds))
    IN  <<s \div 3600, (s % 3600) \div 60, s % 60>>

\* slider.setRange(0, max(0, int(duration))): the slider's maximum.
SliderMax(d) == Max(0, IntOf(d))

\* slider.setValue(v): QSlider holds the value inside its range.
SetValue(v, d) == Max(0, Min(v, SliderMax(d)))

\* ------------------------------------------------------------ media prober
\* What ffmpeg.probe answers for a file: an exception, or a dictionary that
\* may carry a format duration, an audio-stream duration and format tags.
ProbeError == [ok |-> FALSE, fmt |-> None, stream |-> None, tags |-> FALSE]
Probes ==
    { ProbeError,
      [ok |-> TRUE, fmt |-> Some(UnitsPerSecond + 1), stream |-> None, tags |-> TRUE],
      [ok |-> TRUE, fmt |-> None, stream |-> Some(UnitsPerSecond + 1), tags |-> TRUE] }

get_audio_duration_ffmpeg(p) ==
    IF p.ok /\ p.fmt # None THEN Val(p.fmt)
    ELSE IF p.ok /\ p.stream # None THEN Val(p.stream)
    ELSE 0

get_metadata(p) == IF p.ok /\ p.tags THEN "tags" ELSE "empty"

\* ------------------------------------------------------------------ state
VARIABLES
    now,              \* time.time()
    duration,         \* MainWindow.duration
    metadata,         \* MainWindow.metadata ("empty" = {})
    status,           \* MainWindow.status
    ts_start,         \* MainWindow.ts_start
    last_play_clock,  \* MainWindow.last_play_clock (None or Some(clock))
    player_thread,    \* MainWindow.player_thread (None or Some(thread id))
    is_seeking,       \* MainWindow._is_seeking
    timer,            \* MainWindow.timer is active
    slider,           \* MainWindow.slider.value()
    play_icon,        \* icon of MainWindow.play_button
    elapsed_label,    \* text of MainWindow.elapsed_label
    closed,           \* the window was closed
    threads,          \* the PlayerThread objects and their ffplay processes
    mpc,              \* position of the primary context
    lastOp            \* last handler the primary context completed

vars == <<now, duration, metadata, status, ts_start, last_play_clock,
          player_thread, is_seeking, timer, slider, play_icon, elapsed_label,
          closed, threads, mpc, lastOp>>

\* Everything the primary context owns except the thread table.
uiVars == <<duration, metadata, status, ts_start, last_play_clock,
            player_thread, is_seeking, timer, slider, play_icon,
            elapsed_label, closed, mpc, lastOp>>

\* The PlayerThread self.player_thread refers to, when it refers to one.
Held == threads[Val(player_thread)]

\* ----------------------------------------------------------- PlayerThread
\* A slot of the thread table that holds no PlayerThread object.
Unused ==
    [pc |-> "unused", start_ts |-> 0, proc |-> FALSE, stop |-> FALSE,
     ps |-> "none", args |-> None]

\* Mutant of SsArgs: "-ss" is passed for every offset.
SsArgsAlways(start_seconds) == Some(start_seconds)

\* PlayerThread.__init__: self.start_ts = float(start_ts or 0.0), for an
\* offset that may be absent.
PlayerStartTs(o) == IF o = None \/ Val(o) = 0 THEN 0 ELSE Val(o)

\* The "-ss" arguments _start_ffplay_at passes to ffplay.
SsArgs(start_seconds) == IF start_seconds > 0 THEN Some(start_seconds) ELSE None

\* Mutant of NewThread: the start offset is not passed to the thread.
NewThreadAtZero(start_ts) ==
    [pc |-> "spawn", start_ts |-> 0, proc |-> FALSE, stop |-> FALSE,
     ps |-> "none", args |-> None]

\* PlayerThread.__init__ followed by Thread.start().
NewThread(start_ts) ==
    [pc |-> "spawn", start_ts |-> start_ts, proc |-> FALSE, stop |-> FALSE,
     ps |-> "none", args |-> None]

\* proc.poll() is None: the process has not exited (a terminate may be pending).
Running(r) == r.ps \in {"alive", "terminating"}

\* self.proc is not None and self.proc.poll() is None
ProcLive(r) == r.proc /\ Running(r)

\* A finished thread nobody references is garbage, and of a running thread
\* nobody references only what run() still reads is kept: start_ts is read
\* by play() alone, the command line by nobody.
Collect(thr, held) ==
    [t \in DOMAIN thr |->
        IF held = Some(t) THEN thr[t]
        ELSE IF thr[t].pc = "done" THEN Unused
        ELSE IF thr[t].pc # "spawn" THEN [thr[t] EXCEPT !.start_ts = 0, !.args = None]
        ELSE thr[t]]

\* Mutant of ThreadSpawn: after a play() that raised, run() goes on as if a
\* process had been returned.
ThreadSpawnFailureIgnored(t) ==
    /\ ~closed
    /\ threads[t].pc = "spawn"
    /\ \E okSpawn \in BOOLEAN :
          threads' = Collect(
              [threads EXCEPT ![t] =
                  IF okSpawn
                  THEN [@ EXCEPT !.pc = "assign", !.ps = "alive",
                                 !.args = SsArgs(threads[t].start_ts)]
                  ELSE [@ EXCEPT !.pc = "assign"]],
              player_thread)
    /\ UNCHANGED <<now, uiVars>>

\* run(): play(self.file_path, self.start_ts) spawns ffplay, or raises.
ThreadSpawn(t) ==
    /\ ~closed
    /\ threads[t].pc = "spawn"
    /\ \E okSpawn \in BOOLEAN :
          threads' = Collect(
              [threads EXCEPT ![t] =
                  IF okSpawn
                  THEN [@ EXCEPT !.pc = "assign", !.ps = "alive",
                                 !.args = SsArgs(threads[t].start_ts)]
                  ELSE [@ EXCEPT !.pc = "done"]],
              player_thread)
    /\ UNCHANGED <<now, uiVars>>

\* run(): self.proc = result[0]
ThreadAssign(t) ==
    /\ ~closed
    /\ threads[t].pc = "assign"
    /\ threads' = [threads EXCEPT ![t] = [@ EXCEPT !.pc = "loop", !.proc = TRUE]]
    /\ UNCHANGED <<now, uiVars>>

\* run(): the polling loop ends once the process exited or stop was requested;
\* if stop was requested and the process still runs, terminate it and sleep.
ThreadLoopExit(t) ==
    /\ ~closed
    /\ threads[t].pc = "loop"
    /\ ~(ProcLive(threads[t]) /\ ~threads[t].stop)
    /\ threads' =
          IF threads[t].stop /\ ProcLive(threads[t])
          THEN [threads EXCEPT ![t] = [@ EXCEPT !.pc = "sleep", !.ps = "terminating"]]
          ELSE Collect([threads EXCEPT ![t] = [@ EXCEPT !.pc = "done"]],
                       player_thread)
    /\ UNCHANGED <<now, uiVars>>

\* Mutant of ThreadKill: run() ends after the sleep without the kill.
ThreadKillOmitted(t) ==
    /\ ~closed
    /\ threads[t].pc = "sleep"
    /\ threads' = Collect([threads EXCEPT ![t] = [@ EXCEPT !.pc = "done"]],
                          player_thread)
    /\ UNCHANGED <<now, uiVars>>

\* run(): after the 0.1 s sleep, kill the process if it has not exited.
ThreadKill(t) ==
    /\ ~closed
    /\ threads[t].pc = "sleep"
    /\ threads' = Collect(
          [threads EXCEPT ![t] =
              [@ EXCEPT !.pc = "done",
                        !.ps = IF Running(threads[t]) THEN "exited" ELSE @]],
          player_thread)
    /\ UNCHANGED <<now, uiVars>>

\* The ffplay process exits: at end of file (-autoexit) or on SIGTERM.
ProcExit(t) ==
    /\ ~closed
    /\ Running(threads[t])
    /\ threads' = [threads EXCEPT ![t] = [@ EXCEPT !.ps = "exited"]]
    /\ UNCHANGED <<now, uiVars>>

\* stop(): set the flag, terminate a running process (then join).
StopSignal(r) ==
    [r EXCEPT !.stop = TRUE,
              !.ps = IF ProcLive(r) THEN "terminating" ELSE @]

\* Mutant of StopSignalSent: terminate is sent without asking poll().
StopSignalSentUnpolled(r) == IF r.proc THEN "term" ELSE "none"

\* stop(): the signal line 66 sends, if any.
StopSignalSent(r) == IF ProcLive(r) THEN "term" ELSE "none"

\* stop(): join timed out (is_alive()), kill a running process.
StopKill(r) == [r EXCEPT !.ps = IF ProcLive(r) THEN "exited" ELSE @]

\* stop(): the signal line 73 sends, if any.
StopKillSent(r) == IF ProcLive(r) THEN "kill" ELSE "none"

\* ------------------------------------------------------------- MainWindow
\* Mutant of LiveElapsed: the accumulated position is left out.
LiveElapsedNoOffset(clock, lpc, ts) == clock - lpc

\* (time.time() - self.last_play_clock) + self.ts_start
LiveElapsed(clock, lpc, ts) == (clock - lpc) + ts

\* Mutant of StoredTs: the clamp at 0 is missing.
StoredTsUnclamped(clock, lpc, ts) ==
    IF lpc # None THEN (clock - Val(lpc)) + ts ELSE ts

\* pause_play / _on_slider_pressed: the position stored when playback stops.
StoredTs(clock, lpc, ts) ==
    IF lpc # None THEN Max(0, LiveElapsed(clock, Val(lpc), ts)) ELSE ts

\* Mutant of StartGuard: start_play never returns early.
StartGuardNever == FALSE

\* start_play: the early return when the held segment's process is alive.
StartGuard ==
    /\ player_thread # None
    /\ ProcLive(threads[Val(player_thread)])

\* start_play: a paused player adopts a positive slider position.
AdoptSlider(lpc, sl, ts) == IF lpc = None /\ sl > 0 THEN FloatOf(sl) ELSE ts

\* _update_ui: the end-of-track test.
EndOfTrack(d, elapsed) == d > 0 /\ elapsed >= d

FreeSlots(thr) == {t \in DOMAIN thr : thr[t].pc = "unused"}
FirstFree(thr) == CHOOSE t \in FreeSlots(thr) : \A u \in FreeSlots(thr) : t <= u

\* MainWindow.__init__ (lines 83-102), with room for n PlayerThread objects.
InitWith(n) ==
    /\ now = 0
    /\ \E p \in Probes :
          /\ duration = get_audio_duration_ffmpeg(p)
          /\ metadata = get_metadata(p)
    /\ status = "Paused"
    /\ ts_start = 0
    /\ last_play_clock = None
    /\ player_thread = None
    /\ is_seeking = FALSE
    /\ timer = FALSE
    /\ slider = 0
    /\ play_icon = "play"
    /\ elapsed_label = format_time(0)
    /\ closed = FALSE
    /\ threads = [t \in 1..n |-> Unused]
    /\ mpc = "idle"
    /\ lastOp = "init"

\* The primary view: the window holds one PlayerThread reference, and a thread
\* it no longer holds never acts on the window's state.
Init == InitWith(1)


\* ------------------------------------------------------- handlers' bodies
\* start_play() entered with ts_start = ts (lines 233-246).
start_play(ts) ==
    IF StartGuard
    THEN /\ ts_start' = ts
         /\ UNCHANGED <<threads, player_thread, last_play_clock, timer, status,
                        play_icon>>
    ELSE LET ts1 == AdoptSlider(last_play_clock, slider, ts)
             thr == Collect(threads, None)
         IN  /\ FreeSlots(thr) # {}
             /\ ts_start' = ts1
             /\ threads' = [thr EXCEPT ![FirstFree(thr)] = NewThread(ts1)]
             /\ player_thread' = Some(FirstFree(thr))
             /\ last_play_clock' = Some(now)
             /\ timer' = TRUE
             /\ status' = "Playing"
             /\ play_icon' = "pause"

\* pause_play() after its stop() returned with thread table thr (lines 255-266);
\* shown is the position the caller displays last (_update_ui, lines 300-305).
PauseRest(thr, ts, shown, op) ==
    /\ ts_start' = ts
    /\ threads' = Collect(thr, None)
    /\ player_thread' = None
    /\ last_play_clock' = None
    /\ timer' = FALSE
    /\ status' = "Paused"
    /\ play_icon' = "play"
    /\ elapsed_label' = format_time(shown)
    /\ slider' = SetValue(IntOf(shown), duration)
    /\ mpc' = "idle"
    /\ lastOp' = op
    /\ UNCHANGED <<now, duration, metadata, is_seeking, closed>>

\* _on_slider_pressed() after its stop() returned (lines 278-281).
PressedRest(thr, ts) ==
    /\ is_seeking' = TRUE
    /\ timer' = FALSE
    /\ ts_start' = ts
    /\ threads' = Collect(thr, None)
    /\ player_thread' = None
    /\ last_play_clock' = None
    /\ status' = "Paused"
    /\ play_icon' = "play"
    /\ mpc' = "idle"
    /\ lastOp' = "pressed"
    /\ UNCHANGED <<now, duration, metadata, slider, elapsed_label, closed>>

\* Mutant of ResetTs: the position of the previous track is kept.
ResetTsKept == ts_start

\* load_new_track: self.ts_start = 0.0
ResetTs == 0

\* load_new_track() after its stop() returned (lines 199-221); p is the probe.
LoadRest(thr, p) ==
    /\ threads' = Collect(thr, None)
    /\ player_thread' = None
    /\ duration' = get_audio_duration_ffmpeg(p)
    /\ metadata' = get_metadata(p)
    /\ slider' = SetValue(0, get_audio_duration_ffmpeg(p))
    /\ elapsed_label' = <<0, 0, 0>>
    /\ ts_start' = ResetTs
    /\ last_play_clock' = None
    /\ status' = "Paused"
    /\ play_icon' = "play"
    /\ timer' = FALSE
    /\ mpc' = "idle"
    /\ lastOp' = "load"
    /\ UNCHANGED <<now, is_seeking, closed>>

\* closeEvent() after its stop() returned (lines 316-317).
CloseRest(thr) ==
    /\ threads' = Collect(thr, None)
    /\ player_thread' = None
    /\ closed' = TRUE
    /\ mpc' = "idle"
    /\ lastOp' = "close"
    /\ UNCHANGED <<now, duration, metadata, status, ts_start, last_play_clock,
                   is_seeking, timer, slider, play_icon, elapsed_label>>

\* The handler enters PlayerThread.stop() and blocks in join(): lines 63-69.
EnterStop(where) ==
    /\ threads' = [threads EXCEPT ![Val(player_thread)] = StopSignal(@)]
    /\ mpc' = where

Ready == mpc = "idle" /\ ~closed

\* ---------------------------------------------------------------- handlers
\* toggle_play_pause() while Paused: start_play().
Resume ==
    /\ Ready
    /\ status = "Paused"
    /\ start_play(ts_start)
    /\ lastOp' = "resume"
    /\ UNCHANGED <<now, duration, metadata, is_seeking, slider, elapsed_label,
                   closed, mpc>>

\* toggle_play_pause() while Playing: pause_play().
Pause ==
    /\ Ready
    /\ status # "Paused"
    /\ LET ts == StoredTs(now, last_play_clock, ts_start)
       IN  IF player_thread # None
           THEN /\ EnterStop("join_pause")
                /\ ts_start' = ts
                /\ UNCHANGED <<now, duration, metadata, status, last_play_clock,
                               player_thread, is_seeking, timer, slider,
                               play_icon, elapsed_label, closed, lastOp>>
           ELSE /\ PauseRest(threads, ts, ts, "pause")

\* sliderPressed: _on_slider_pressed().
Pressed ==
    /\ Ready
    /\ ~is_seeking
    /\ LET ts == StoredTs(now, last_play_clock, ts_start)
       IN  IF player_thread # None
           THEN /\ EnterStop("join_pressed")
                /\ is_seeking' = TRUE
                /\ timer' = FALSE
                /\ ts_start' = ts
                /\ UNCHANGED <<now, duration, metadata, status, last_play_clock,
                               player_thread, slider, play_icon, elapsed_label,
                               closed, lastOp>>
           ELSE /\ PressedRest(threads, ts)

\* The user drags the pressed slider to position v.
SliderMove(v) ==
    /\ Ready
    /\ is_seeking
    /\ v # slider
    /\ slider' = v
    /\ UNCHANGED <<now, duration, metadata, status, ts_start, last_play_clock,
                   player_thread, is_seeking, timer, play_icon, elapsed_label,
                   closed, threads, mpc, lastOp>>

\* sliderReleased: _on_slider_released().
Released ==
    /\ Ready
    /\ is_seeking
    /\ is_seeking' = FALSE
    /\ start_play(FloatOf(slider))
    /\ lastOp' = IF lastOp = "pressed" THEN "seek" ELSE "released"
    /\ UNCHANGED <<now, duration, metadata, slider, elapsed_label, closed, mpc>>

\* Mutant of TickSkips: the test of _is_seeking is missing.
TickSkipsUnlessSeeking == last_play_clock = None

\* _update_ui: the two early returns (lines 292-295).
TickSkips == is_seeking \/ last_play_clock = None

\* The refresh timer fires: _update_ui().
Tick ==
    /\ Ready
    /\ IF TickSkips
       THEN /\ lastOp' = "tick_noop"
            /\ UNCHANGED <<now, duration, metadata, status, ts_start,
                           last_play_clock, player_thread, is_seeking, timer,
                           slider, play_icon, elapsed_label, closed, threads,
                           mpc>>
       ELSE LET elapsed == LiveElapsed(now, Val(last_play_clock), ts_start)
            IN  IF EndOfTrack(duration, elapsed)
                THEN LET ts == StoredTs(now, last_play_clock, ts_start)
                     IN  IF player_thread # None
                         THEN /\ EnterStop("join_eot")
                              /\ ts_start' = ts
                              /\ UNCHANGED <<now, duration, metadata, status,
                                             last_play_clock, player_thread,
                                             is_seeking, timer, slider, play_icon,
                                             elapsed_label, closed, lastOp>>
                         ELSE /\ PauseRest(threads, ts, duration, "tick_eot")
                ELSE /\ elapsed_label' = format_time(elapsed)
                     /\ slider' = SetValue(IntOf(elapsed), duration)
                     /\ lastOp' = "tick"
                     /\ UNCHANGED <<now, duration, metadata, status, ts_start,
                                    last_play_clock, player_thread, is_seeking,
                                    timer, play_icon, closed, threads, mpc>>

\* open_file_dialog() with a chosen file: load_new_track().
Load ==
    /\ Ready
    /\ IF player_thread # None
       THEN /\ EnterStop("join_load")
            /\ UNCHANGED <<now, duration, metadata, status, ts_start,
                           last_play_clock, player_thread, is_seeking, timer,
                           slider, play_icon, elapsed_label, closed, lastOp>>
       ELSE /\ \E p \in Probes : LoadRest(threads, p)

\* closeEvent().
Close ==
    /\ Ready
    /\ IF player_thread # None
       THEN /\ EnterStop("join_close")
            /\ UNCHANGED <<now, duration, metadata, status, ts_start,
                           last_play_clock, player_thread, is_seeking, timer,
                           slider, play_icon, elapsed_label, closed, lastOp>>
       ELSE /\ CloseRest(threads)

\* What follows stop() in the handler that called it.
AfterStop(thr) ==
    CASE mpc = "join_pause"   -> PauseRest(thr, ts_start, ts_start, "pause")
      [] mpc = "join_eot"     -> PauseRest(thr, ts_start, duration, "tick_eot")
      [] mpc = "join_pressed" -> PressedRest(thr, ts_start)
      [] mpc = "join_load"    -> \E p \in Probes : LoadRest(thr, p)
      [] mpc = "join_close"   -> CloseRest(thr)

\* stop(): join() returns because the thread finished (lines 69-70).
JoinDone ==
    /\ mpc # "idle"
    /\ threads[Val(player_thread)].pc = "done"
    /\ AfterStop(threads)

\* stop(): join() timed out, the thread is alive: kill (lines 69-75).
JoinTimeout ==
    /\ mpc # "idle"
    /\ threads[Val(player_thread)].pc \in {"spawn", "assign"}
    /\ AfterStop([threads EXCEPT ![Val(player_thread)] = StopKill(@)])

\* ------------------------------------------------------------- wall clock
\* Time passes.  The derived position is kept within MaxPos.
Advance ==
    /\ ~closed
    /\ now < MaxClock
    /\ last_play_clock # None =>
          LiveElapsed(now + 1, Val(last_play_clock), ts_start) <= MaxPos
    /\ now' = now + 1
    /\ UNCHANGED <<uiVars, threads>>

\* time.time() is not monotonic: the wall clock is set back.
ClockBack ==
    /\ ~closed
    /\ now > 0
    /\ now' = now - 1
    /\ UNCHANGED <<uiVars, threads>>

Next ==
    \/ Resume
    \/ Pause
    \/ Pressed
    \/ \E v \in 0..SliderMax(duration) : SliderMove(v)
    \/ Released
    \/ Tick
    \/ Load
    \/ Close
    \/ JoinDone
    \/ JoinTimeout
    \/ \E t \in DOMAIN threads : ThreadSpawn(t)
    \/ \E t \in DOMAIN threads : ThreadAssign(t)
    \/ \E t \in DOMAIN threads : ThreadLoopExit(t)
    \/ \E t \in DOMAIN threads : ThreadKill(t)
    \/ \E t \in DOMAIN threads : ProcExit(t)
    \/ Advance
    \/ ClockBack

Spec == Init /\ [][Next]_vars

\* The concurrency view: up to MaxThreads PlayerThread objects exist, so that
\* a segment can start while an earlier thread still runs; the wall clock
\* stands.
InitThreads == InitWith(MaxThreads)

NextThreads ==
    \/ Resume
    \/ Pause
    \/ Pressed
    \/ \E v \in 0..SliderMax(duration) : SliderMove(v)
    \/ Released
    \/ Tick
    \/ Load
    \/ Close
    \/ JoinDone
    \/ JoinTimeout
    \/ \E t \in DOMAIN threads : ThreadSpawn(t)
    \/ \E t \in DOMAIN threads : ThreadAssign(t)
    \/ \E t \in DOMAIN threads : ThreadLoopExit(t)
    \/ \E t \in DOMAIN threads : ThreadKill(t)
    \/ \E t \in DOMAIN threads : ProcExit(t)

SpecThreads == InitThreads /\ [][NextThreads]_vars

\* The stop() view: the caller holds one PlayerThread, constructed for some
\* start offset and either started or not, and calls stop() on it twice in a
\* row while run() and the ffplay process take their own steps.  mpc is the
\* caller's position (call1, join1, call2, join2, called, raised) and lastOp
\* what the last step of stop() sent to the process.
InitStop ==
    /\ now = 0
    /\ \E p \in Probes :
          /\ duration = get_audio_duration_ffmpeg(p)
          /\ metadata = get_metadata(p)
    /\ status = "Playing"
    /\ last_play_clock = Some(0)
    /\ player_thread = Some(1)
    /\ is_seeking = FALSE
    /\ timer = TRUE
    /\ slider = 0
    /\ play_icon = "pause"
    /\ elapsed_label = format_time(0)
    /\ closed = FALSE
    /\ \E ts \in 0..MaxPos, started \in BOOLEAN :
          /\ ts_start = ts
          /\ threads = [t \in 1..1 |->
                IF started THEN NewThread(ts)
                ELSE [NewThread(ts) EXCEPT !.pc = "created"]]
    /\ mpc = "call1"
    /\ lastOp = "init"

\* stop() up to join(): lines 63-69.  Thread.join() raises RuntimeError on a
\* thread that was never started.
StopCall ==
    /\ mpc \in {"call1", "call2"}
    /\ threads' = [threads EXCEPT ![Val(player_thread)] = StopSignal(@)]
    /\ lastOp' = "stop_" \o StopSignalSent(Held)
    /\ mpc' = IF Held.pc = "created" THEN "raised"
              ELSE IF mpc = "call1" THEN "join1" ELSE "join2"
    /\ UNCHANGED <<now, duration, metadata, status, ts_start, last_play_clock,
                   player_thread, is_seeking, timer, slider, play_icon,
                   elapsed_label, closed>>

\* stop(): join() returns because run() finished; is_alive() is false.
StopJoined ==
    /\ mpc \in {"join1", "join2"}
    /\ Held.pc = "done"
    /\ lastOp' = "join_none"
    /\ mpc' = IF mpc = "join1" THEN "call2" ELSE "called"
    /\ UNCHANGED <<now, duration, metadata, status, ts_start, last_play_clock,
                   player_thread, is_seeking, timer, slider, play_icon,
                   elapsed_label, closed, threads>>

\* stop(): join() timed out with run() unfinished: lines 70-75.
StopTimedOut ==
    /\ mpc \in {"join1", "join2"}
    /\ Held.pc # "done"
    /\ threads' = [threads EXCEPT ![Val(player_thread)] = StopKill(@)]
    /\ lastOp' = "join_" \o StopKillSent(Held)
    /\ mpc' = IF mpc = "join1" THEN "call2" ELSE "called"
    /\ UNCHANGED <<now, duration, metadata, status, ts_start, last_play_clock,
                   player_thread, is_seeking, timer, slider, play_icon,
                   elapsed_label, closed>>

NextStop ==
    \/ StopCall
    \/ StopJoined
    \/ StopTimedOut
    \/ \E t \in DOMAIN threads : ThreadSpawn(t)
    \/ \E t \in DOMAIN threads : ThreadAssign(t)
    \/ \E t \in DOMAIN threads : ThreadLoopExit(t)
    \/ \E t \in DOMAIN threads : ThreadKill(t)
    \/ \E t \in DOMAIN threads : ProcExit(t)

SpecStop == InitStop /\ [][NextStop]_vars

\* The stop() view with the scheduler's guarantee: a started thread's run()
\* is given the processor until it returns.  Nothing is assumed of the caller
\* and nothing of the process, which need not exit unless it is killed.
SpecStopFair ==
    /\ SpecStop
    /\ WF_vars(\E t \in DOMAIN threads : ThreadSpawn(t))
    /\ WF_vars(\E t \in DOMAIN threads : ThreadAssign(t))
    /\ WF_vars(\E t \in DOMAIN threads : ThreadLoopExit(t))
    /\ WF_vars(\E t \in DOMAIN threads : ThreadKill(t))

\* The stop() view with failing calls: besides play() (ThreadSpawn), each
\* poll(), terminate() and kill() of run() and of stop() may raise.
\* run(): poll() raises in the loop condition or in the test after it; the
\* outer except ends run() and the process is left as it is (lines 48-60).
ThreadPollRaises(t) ==
    /\ ~closed
    /\ threads[t].pc \in {"loop", "sleep"}
    /\ threads[t].proc
    /\ threads' = Collect([threads EXCEPT ![t] = [@ EXCEPT !.pc = "done"]],
                          player_thread)
    /\ UNCHANGED <<now, uiVars>>

\* run(): terminate() or kill() raises; the inner except passes and run()
\* ends without the signal having been sent (lines 51-58).
ThreadSignalRaises(t) ==
    /\ ~closed
    /\ \/ threads[t].pc = "loop" /\ threads[t].stop /\ ProcLive(threads[t])
       \/ threads[t].pc = "sleep" /\ Running(threads[t])
    /\ threads' = Collect([threads EXCEPT ![t] = [@ EXCEPT !.pc = "done"]],
                          player_thread)
    /\ UNCHANGED <<now, uiVars>>

\* stop(): poll() raises in the condition of line 64, which no try encloses:
\* the flag is set and the exception leaves stop().
StopPollRaises ==
    /\ mpc \in {"call1", "call2"}
    /\ Held.proc
    /\ threads' = [threads EXCEPT ![Val(player_thread)] = [@ EXCEPT !.stop = TRUE]]
    /\ lastOp' = "stop_error"
    /\ mpc' = "raised"
    /\ UNCHANGED <<now, duration, metadata, status, ts_start, last_play_clock,
                   player_thread, is_seeking, timer, slider, play_icon,
                   elapsed_label, closed>>

\* stop(): terminate() raises at line 66; the except passes, no signal was
\* sent and stop() goes on to join().
StopTerminateRaises ==
    /\ mpc \in {"call1", "call2"}
    /\ Held.pc # "created"
    /\ ProcLive(Held)
    /\ threads' = [threads EXCEPT ![Val(player_thread)] = [@ EXCEPT !.stop = TRUE]]
    /\ lastOp' = "stop_none"
    /\ mpc' = IF mpc = "call1" THEN "join1" ELSE "join2"
    /\ UNCHANGED <<now, duration, metadata, status, ts_start, last_play_clock,
                   player_thread, is_seeking, timer, slider, play_icon,
                   elapsed_label, closed>>

\* stop(): after a join() that timed out, poll() or kill() raises inside the
\* try of lines 71-75; the except passes and stop() returns.
StopKillRaises ==
    /\ mpc \in {"join1", "join2"}
    /\ Held.pc # "done"
    /\ Held.proc
    /\ lastOp' = "join_none"
    /\ mpc' = IF mpc = "join1" THEN "call2" ELSE "called"
    /\ UNCHANGED <<now, duration, metadata, status, ts_start, last_play_clock,
                   player_thread, is_seeking, timer, slider, play_icon,
                   elapsed_label, closed, threads>>

NextFaults ==
    \/ NextStop
    \/ \E t \in DOMAIN threads : ThreadPollRaises(t)
    \/ \E t \in DOMAIN threads : ThreadSignalRaises(t)
    \/ StopPollRaises
    \/ StopTerminateRaises
    \/ StopKillRaises

SpecFaults == InitStop /\ [][NextFaults]_vars

\* The unattended view: a segment has just been started at the slider's
\* position, by a resume or a seek (is_seeking false) or by a toggle while
\* the slider is held (is_seeking true), and from then on the user does
\* nothing: the timer fires, the clock advances, run() and the process take
\* their steps.
InitAuto ==
    /\ now = 0
    /\ \E p \in Probes :
          /\ duration = get_audio_duration_ffmpeg(p)
          /\ metadata = get_metadata(p)
    /\ status = "Playing"
    /\ last_play_clock = Some(0)
    /\ player_thread = Some(1)
    /\ is_seeking \in BOOLEAN
    /\ timer = TRUE
    /\ slider \in 0..SliderMax(duration)
    /\ ts_start = FloatOf(slider)
    /\ play_icon = "pause"
    /\ elapsed_label = format_time(0)
    /\ closed = FALSE
    /\ threads = [t \in 1..1 |-> NewThread(ts_start)]
    /\ mpc = "idle"
    /\ lastOp = "resume"

NextAuto ==
    \/ Tick
    \/ Advance
    \/ JoinDone
    \/ JoinTimeout
    \/ \E t \in DOMAIN threads : ThreadSpawn(t)
    \/ \E t \in DOMAIN threads : ThreadAssign(t)
    \/ \E t \in DOMAIN threads : ThreadLoopExit(t)
    \/ \E t \in DOMAIN threads : ThreadKill(t)
    \/ \E t \in DOMAIN threads : ProcExit(t)

\* The QTimer keeps firing, time passes, run() is scheduled and a join()
\* returns once run() has finished.
SpecAuto ==
    /\ InitAuto
    /\ [][NextAuto]_vars
    /\ WF_vars(Tick)
    /\ WF_vars(Advance)
    /\ WF_vars(JoinDone)
    /\ WF_vars(\E t \in DOMAIN threads : ThreadSpawn(t))
    /\ WF_vars(\E t \in DOMAIN threads : ThreadAssign(t))
    /\ WF_vars(\E t \in DOMAIN threads : ThreadLoopExit(t))
    /\ WF_vars(\E t \in DOMAIN threads : ThreadKill(t))

TypeOK ==
    /\ now \in 0..MaxClock
    /\ status \in {"Paused", "Playing"}
    /\ ts_start \in 0..(MaxPos + FloatOf(SliderMax(duration)))
    /\ slider \in 0..SliderMax(duration)
    /\ player_thread \in {None} \cup {Some(t) : t \in DOMAIN threads}

\* ------------------------------------------------------------------ claims
Idle == mpc = "idle"

\* C1: between handlers, status is Paused exactly when last_play_clock is
\* absent and Playing exactly when it is present, and while Playing ts_start
\* is still the position with which the held segment was started.
C1_StateInvariant ==
    /\ (status = "Paused") <=> (last_play_clock = None)
    /\ (status = "Playing") <=> (last_play_clock # None)
    /\ (Idle /\ status = "Playing" /\ player_thread # None)
          => ts_start = Held.start_ts

\* C2: at most one external player process runs at any time (a process that
\* was already sent a terminate or kill is not counted).
C2_AtMostOneAlive ==
    Cardinality({t \in DOMAIN threads : threads[t].ps = "alive"}) <= 1

\* C3: once a tick has found the end of the track, the player is Paused
\* with ts_start exactly equal to duration.
C3_EndOfTrackClamp ==
    (Idle /\ lastOp = "tick_eot") => (status = "Paused" /\ ts_start = duration)

\* C4 as stated: seek_begin directly followed by seek_end(t) ends Playing at
\* ts_start = t with last_play_clock = now and exactly one new segment started
\* at offset t, and the next tick reports t plus the clock time passed since.
C4_SeekThenTickExact ==
    /\ [][(lastOp = "pressed" /\ lastOp' = "seek") =>
            /\ status' = "Playing"
            /\ ts_start' = slider * UnitsPerSecond
            /\ last_play_clock' = Some(now)
            /\ player_thread' # None
            /\ threads'[Val(player_thread')].pc = "spawn"
            /\ threads'[Val(player_thread')].start_ts = slider * UnitsPerSecond
            /\ Cardinality({t \in DOMAIN threads : threads'[t] # threads[t]}) = 1]_vars
    /\ [][(lastOp = "seek" /\ lastOp' = "tick") =>
            elapsed_label' = format_time((now - Val(last_play_clock)) + ts_start)]_vars
    /\ [][(lastOp = "seek" /\ Idle /\ mpc' = "join_eot") =>
            format_time(duration) = format_time((now - Val(last_play_clock)) + ts_start)]_vars
    /\ [][(lastOp = "seek" /\ lastOp' = "tick_eot") =>
            elapsed_label' = format_time(duration)]_vars

\* C4 amended: as above, except that a tick which finds the end of the track
\* (duration > 0 and elapsed >= duration) reports duration.
C4_SeekThenTick ==
    /\ [][(lastOp = "pressed" /\ lastOp' = "seek") =>
            /\ status' = "Playing"
            /\ ts_start' = slider * UnitsPerSecond
            /\ last_play_clock' = Some(now)
            /\ player_thread' # None
            /\ threads'[Val(player_thread')].pc = "spawn"
            /\ threads'[Val(player_thread')].start_ts = slider * UnitsPerSecond
            /\ Cardinality({t \in DOMAIN threads : threads'[t] # threads[t]}) = 1]_vars
    /\ [][(lastOp = "seek" /\ lastOp' = "tick") =>
            /\ ~(duration > 0 /\ (now - Val(last_play_clock)) + ts_start >= duration)
            /\ elapsed_label' = format_time((now - Val(last_play_clock)) + ts_start)]_vars
    /\ [][(lastOp = "seek" /\ Idle /\ mpc' = "join_eot") =>
            /\ duration > 0
            /\ (now - Val(last_play_clock)) + ts_start >= duration]_vars
    /\ [][(lastOp = "seek" /\ lastOp' = "tick_eot") =>
            elapsed_label' = format_time(duration)]_vars

\* C4 witness: a seek to a positive position has just restarted playback.
C4_Witness ==
    /\ lastOp = "seek"
    /\ status = "Playing"
    /\ ts_start > 0
    /\ player_thread # None
    /\ Held.start_ts = ts_start

\* The position the player is at: derived while Playing, stored while Paused.
DerivedElapsed ==
    IF status = "Playing" THEN (now - Val(last_play_clock)) + ts_start ELSE ts_start

\* C5: over resume, pause and tick with a wall clock that does not go back
\* (no seek, no load), the derived position never goes back across a step that
\* leaves the player Playing, in particular a resume that follows a pause, and
\* does not change across a step that keeps it Paused.
C5_ElapsedMonotone ==
    [][(/\ Idle /\ mpc' = "idle" /\ now' >= now /\ ~is_seeking
        /\ \/ Advance
           \/ Tick
           \/ Resume /\ lastOp = "pause") =>
          /\ status' = "Playing" => DerivedElapsed' >= DerivedElapsed
          /\ (status = "Paused" /\ status' = "Paused") =>
                DerivedElapsed' = DerivedElapsed]_vars

\* C6: pause() while Playing stores max(0, now - last_play_clock + ts_start),
\* never a negative position, and requests stop of the held PlayerThread; when
\* stop() has returned the thread is dropped, last_play_clock is cleared, the
\* status is Paused, the play icon is shown and the stored position is kept.
C6_PauseStores ==
    /\ [][(Pause /\ player_thread # None) =>
            /\ ts_start' = Max(0, (now - Val(last_play_clock)) + ts_start)
            /\ ts_start' >= 0
            /\ threads'[Val(player_thread)].stop
            /\ mpc' = "join_pause"]_vars
    /\ [][(mpc = "join_pause" /\ mpc' = "idle") =>
            /\ ts_start' = ts_start
            /\ player_thread' = None
            /\ last_play_clock' = None
            /\ status' = "Paused"
            /\ play_icon' = "play"
            /\ lastOp' = "pause"]_vars

\* C6 witness: a pause is under way after the wall clock was set back behind
\* last_play_clock; the stored position is 0 and stop has been requested.
C6_Witness ==
    /\ mpc = "join_pause"
    /\ now < Val(last_play_clock)
    /\ ts_start = 0
    /\ Held.stop

\* C7 as stated: a tick while Playing, not seeking and not at the end of the
\* track shows now - last_play_clock + ts_start in the elapsed label and puts
\* the slider at that position, with the pause icon shown, and changes nothing
\* of the transport.
C7_TickReportsExact ==
    [][(Tick /\ ~is_seeking /\ status = "Playing"
          /\ (duration = 0 \/ (now - Val(last_play_clock)) + ts_start < duration)) =>
          /\ elapsed_label' = format_time((now - Val(last_play_clock)) + ts_start)
          /\ slider' = IntOf((now - Val(last_play_clock)) + ts_start)
          /\ play_icon' = "pause"
          /\ lastOp' = "tick"
          /\ UNCHANGED <<status, ts_start, last_play_clock, player_thread, threads,
                         timer, mpc>>]_vars

\* C7 amended: as above, except that the slider is put at the whole seconds of
\* that position held to its range 0..int(duration), so that it stays at 0
\* when duration = 0.
C7_TickReports ==
    [][(Tick /\ ~is_seeking /\ status = "Playing"
          /\ (duration = 0 \/ (now - Val(last_play_clock)) + ts_start < duration)) =>
          /\ elapsed_label' = format_time((now - Val(last_play_clock)) + ts_start)
          /\ slider' = Max(0, Min(IntOf((now - Val(last_play_clock)) + ts_start),
                                  IntOf(duration)))
          /\ play_icon' = "pause"
          /\ lastOp' = "tick"
          /\ UNCHANGED <<status, ts_start, last_play_clock, player_thread, threads,
                         timer, mpc>>]_vars

\* C7 witness: with duration 0, a tick has reported one second of playback
\* from position 0 and the slider is still at 0.
C7_Witness ==
    /\ lastOp = "tick"
    /\ status = "Playing"
    /\ duration = 0
    /\ ts_start = 0
    /\ elapsed_label = <<0, 0, 1>>
    /\ slider = 0

\* C8: a tick during a seek or while Paused changes nothing of the transport
\* and pushes nothing to the display.
C8_TickNoOp ==
    [][(Tick /\ (is_seeking \/ status = "Paused")) =>
          UNCHANGED <<status, ts_start, last_play_clock, player_thread, threads,
                      timer, slider, elapsed_label, play_icon, is_seeking, mpc>>]_vars

\* C8 witness: a tick came during a seek in which toggle_play_pause had
\* started playback, after the clock had advanced.
C8_Witness ==
    /\ lastOp = "tick_noop"
    /\ is_seeking
    /\ status = "Playing"
    /\ now > Val(last_play_clock)

\* C9: load requests stop of a held segment and ends Paused at ts_start = 0
\* with last_play_clock absent, no PlayerThread held, the timer stopped and
\* the slider at 0; a failed probe gives duration 0 and empty metadata and the
\* same reset.
C9_LoadResets ==
    /\ [][(Load /\ player_thread # None) =>
            /\ threads'[Val(player_thread)].stop
            /\ mpc' = "join_load"]_vars
    /\ [][((Load \/ mpc = "join_load") /\ mpc' = "idle") =>
            /\ status' = "Paused"
            /\ ts_start' = 0
            /\ last_play_clock' = None
            /\ player_thread' = None
            /\ timer' = FALSE
            /\ slider' = 0
            /\ lastOp' = "load"
            /\ \E p \in Probes :
                  /\ duration' = get_audio_duration_ffmpeg(p)
                  /\ metadata' = get_metadata(p)]_vars
    /\ [](\A p \in Probes :
            ~p.ok => (get_audio_duration_ffmpeg(p) = 0 /\ get_metadata(p) = "empty"))

\* C9 witness: a load whose probe failed has reset a player that had a
\* position and a moved slider.
C9_Witness ==
    /\ lastOp = "load"
    /\ Idle
    /\ duration = 0
    /\ metadata = "empty"
    /\ status = "Paused"
    /\ ts_start = 0
    /\ is_seeking

\* C10: stop() called twice in a row on a started PlayerThread raises nothing;
\* a step of the second call taken when the process is not running sends no
\* terminate and no kill and leaves the process as it is; and the stop flag of
\* a thread, once set, stays set.
C10_StopTwice ==
    [][/\ \A t \in DOMAIN threads : threads[t].stop => threads'[t].stop
       /\ (mpc \in {"call1", "join1", "call2", "join2"} /\ mpc' # mpc
              /\ Held.pc # "created")
             => mpc' # "raised"
       /\ (mpc \in {"call2", "join2"} /\ mpc' # mpc /\ ~Running(Held))
             => /\ lastOp' \in {"stop_none", "join_none"}
                /\ threads'[Val(player_thread)].ps = Held.ps]_vars

\* Both calls returned on a thread whose process was spawned and has exited.
C10_Witness ==
    /\ mpc = "called"
    /\ Held.ps = "exited"
    /\ Held.proc
    /\ Held.stop
    /\ lastOp = "join_none"

\* C11: stop() called on a PlayerThread that was never started, or whose run()
\* has finished, returns without raising and sends no terminate and no kill.
C11_StopSafe ==
    [][(mpc \in {"call1", "call2"} /\ mpc' # mpc
          /\ Held.pc \in {"created", "done"}) =>
          /\ mpc' # "raised"
          /\ lastOp' = "stop_none"
          /\ threads'[Val(player_thread)].ps = Held.ps]_vars

\* C12: once stop() was requested on a started PlayerThread, eventually run()
\* has finished and no process of the thread is running, wherever run() was
\* when the request came.
C12_StopEnds ==
    (Held.stop /\ Held.pc # "created")
        ~> (Held.pc = "done" /\ ~Running(Held))

\* C12 witness: stop() was requested before run() assigned proc, and the
\* process has since been spawned and runs.
C12_Witness ==
    /\ mpc = "join1"
    /\ lastOp = "stop_none"
    /\ Held.stop
    /\ Held.pc = "assign"
    /\ Held.ps = "alive"

\* C13: no exception of play(), poll(), terminate() or kill() leaves run(),
\* and none leaves stop() called on a started thread.
C13_NothingPropagates ==
    /\ Held.pc # "crashed"
    /\ mpc = "raised" => Held.pc = "created"

C15_AutoPause ==
    (status = "Playing" /\ duration > 0) ~> (status = "Paused")

\* The held segment's play() raised: run() is over and no process exists.
SpawnFailed ==
    /\ player_thread # None
    /\ Held.pc = "done"
    /\ ~Held.proc
    /\ Held.ps = "none"

\* C16: when play() raises in the held segment's run(), run() ends there
\* with proc absent and the controller's state is untouched; the player stays
\* Playing with the position advancing with the clock; a pause then stores the
\* position, signals no process and, when stop() has returned, leaves an
\* ordinary Paused state with no thread held.
C16_SpawnFailure ==
    /\ [][(player_thread # None /\ Held.pc = "spawn"
             /\ threads'[Val(player_thread)].pc # "spawn"
             /\ threads'[Val(player_thread)].ps = "none") =>
            /\ threads'[Val(player_thread)].pc = "done"
            /\ ~threads'[Val(player_thread)].proc
            /\ UNCHANGED <<now, status, ts_start, last_play_clock, player_thread,
                           timer, play_icon, mpc, lastOp>>]_vars
    /\ [][(SpawnFailed /\ Idle /\ status = "Playing" /\ now' = now + 1) =>
            /\ status' = "Playing"
            /\ DerivedElapsed' = DerivedElapsed + 1]_vars
    /\ [][(SpawnFailed /\ Pause) =>
            /\ ts_start' = Max(0, (now - Val(last_play_clock)) + ts_start)
            /\ threads'[Val(player_thread)] = [Held EXCEPT !.stop = TRUE]
            /\ mpc' = "join_pause"]_vars
    /\ [][(SpawnFailed /\ mpc = "join_pause" /\ mpc' = "idle") =>
            /\ status' = "Paused"
            /\ last_play_clock' = None
            /\ player_thread' = None
            /\ timer' = FALSE
            /\ play_icon' = "play"
            /\ ts_start' = ts_start
            /\ \A t \in DOMAIN threads : threads'[t].ps # "alive"]_vars

\* C16 witness: a pause is under way on a segment whose play() raised, after
\* the clock had advanced while the player was Playing.
C16_Witness ==
    /\ SpawnFailed
    /\ mpc = "join_pause"
    /\ Held.stop
    /\ ts_start > 0
    /\ now > Val(last_play_clock)

\* C17: a segment is created with the ts_start of its resume as start offset;
\* when run() spawns the held segment's process, "-ss" is passed with that
\* offset if it is > 0 and not at all otherwise; and for every offset given
\* to PlayerThread, absent, negative, 0 or positive, "-ss" is passed exactly
\* when the offset is > 0, with that value.
C17_OffsetArgument ==
    /\ [][(player_thread' # None /\ player_thread' # player_thread) =>
            /\ threads'[Val(player_thread')].start_ts = ts_start'
            /\ threads'[Val(player_thread')].pc = "spawn"
            /\ threads'[Val(player_thread')].args = None]_vars
    /\ [][(player_thread # None /\ Held.pc = "spawn"
             /\ threads'[Val(player_thread)].ps = "alive") =>
            threads'[Val(player_thread)].args =
                IF Held.start_ts > 0 THEN <<Held.start_ts>> ELSE <<>>]_vars
    /\ [](\A o \in {None} \cup {Some(x) : x \in (0 - MaxPos)..MaxPos} :
            SsArgs(PlayerStartTs(o)) =
                IF o # None /\ Val(o) > 0 THEN o ELSE None)

\* C17 witness: the held segment was started at a positive position and its
\* process runs with that "-ss" offset.
C17_Witness ==
    /\ status = "Playing"
    /\ player_thread # None
    /\ Held.ps = "alive"
    /\ Held.args = Some(ts_start)
    /\ ts_start > 0

\* C18: a resume that directly follows a pause, with no seek in progress,
\* keeps the ts_start the pause stored and starts the new segment at exactly
\* that offset.
C18_PauseResumeExact ==
    [][(Resume /\ lastOp = "pause" /\ ~is_seeking) =>
          /\ ts_start' = ts_start
          /\ player_thread' # None
          /\ threads'[Val(player_thread')].start_ts = ts_start]_vars

\* C19: between handlers and until the window is closed, whenever the player
\* is Playing a segment is held and ts_start is the start offset that
\* segment's PlayerThread was created with.
C19_TsStartIsSegmentOffset ==
    (Idle /\ ~closed /\ status = "Playing") =>
        (player_thread # None /\ Held.start_ts = ts_start)

====
